---- MODULE Spec2Model ----
(***************************************************************************)
(* Storefront cart: the local-storage build (src/app.js) and the Firestore *)
(* build (src/unnamed/part_000).  A page load runs one of the two scripts; *)
(* tabs of the local build share one localStorage slot, clients of the     *)
(* Firestore build share the remote cart documents.                        *)
(*                                                                         *)
(* Abstractions: prices are integer cents; a product's name, image and     *)
(* description are determined by its id and are not carried; a             *)
(* notification is its type and a tag for its text; the DOM is reduced to  *)
(* the handlers attached and the values displayed.  Each client's remote   *)
(* requests complete in the order they were issued; snapshots of one       *)
(* subscription are delivered in order, at any later time.  A write to the *)
(* localStorage slot is taken to succeed.  The call at part_000 line 369   *)
(* is read as a call of the firebase-app function imported at line 2,      *)
(* whose name the page controller declared at line 366 takes as well.      *)
(*                                                                         *)
(* Explored: one client on any page, or two clients on the home page or    *)
(* the cart page; MaxEvents outside events (clicks, provider changes);     *)
(* clicks on the buttons of the products in ClickIds.                      *)
(***************************************************************************)
EXTENDS Integers, Sequences, FiniteSets, TLC

\* ---- bounds ----
MaxEvents == 2    \* what the outside does in one run: the clicks (add, remove,
                  \* checkout) and the later user changes of the identity provider

Clients == {"a", "b"}
Uids == {"u1", "u2"}          \* identities the provider issues
RandomIds == {"r1", "r2"}     \* values of crypto.randomUUID()
Null == "null"
NoDoc == [exists |-> FALSE, keys |-> {}, data |-> <<>>]

\* ---- catalog ----
fallbackProducts ==
  << [id |-> 1, price |-> 2499,  featured |-> TRUE],
     [id |-> 2, price |-> 7999,  featured |-> TRUE],
     [id |-> 3, price |-> 11950, featured |-> FALSE],
     [id |-> 4, price |-> 3500,  featured |-> FALSE],
     [id |-> 5, price |-> 6500,  featured |-> FALSE] >>

\* what the catalog endpoint answers when it answers 2xx
ApiResponses ==
  { << [id |-> 1, price |-> 2499, featured |-> TRUE],
       [id |-> 6, price |-> 1000, featured |-> FALSE] >> }

FetchOutcomes ==
  {[kind |-> "error", body |-> <<>>], [kind |-> "status500", body |-> <<>>]}
    \cup {[kind |-> "ok", body |-> b] : b \in ApiResponses}

fetchProducts_NoStatusCheck(outcome) ==
  IF outcome.kind = "error" THEN fallbackProducts ELSE outcome.body
\* fetchProducts: the value allProducts gets for a fetch outcome
fetchProducts(outcome) ==
  IF outcome.kind = "ok" THEN outcome.body ELSE fallbackProducts

Pages == {"index", "products", "cart", "details", "account"}
QueryIds == {2, 9}     \* ?id= of product-details.html; 9 is in no catalog
ClickIds == {1, 2}     \* the products whose buttons the user clicks

\* ---- sequences ----
Range(s) == {s[i] : i \in 1..Len(s)}

\* Array.prototype.findIndex on item.id; 0 stands for -1
findIndex(cart, id) ==
  IF \E i \in 1..Len(cart) : cart[i].id = id
  THEN CHOOSE i \in 1..Len(cart) :
         cart[i].id = id /\ \A j \in 1..(i - 1) : cart[j].id # id
  ELSE 0

\* Array.prototype.find on p.id: found(..) tells whether it is defined
found(products, id) == findIndex(products, id) # 0

find(products, id) == products[findIndex(products, id)]

filterOut_Splice(cart, id) ==
  LET i == IF found(cart, id) THEN findIndex(cart, id) ELSE Len(cart)
  IN [j \in 1..(IF cart = <<>> THEN 0 ELSE Len(cart) - 1) |->
        IF j < i THEN cart[j] ELSE cart[j + 1]]
\* Array.prototype.filter(item => item.id !== productId)
filterOut(cart, id) == SelectSeq(cart, LAMBDA item : item.id # id)

Ids(cart) == {cart[i].id : i \in 1..Len(cart)}

RECURSIVE totalItems(_)
\* cart.reduce((sum, item) => sum + item.quantity, 0)
totalItems(cart) ==
  IF cart = <<>> THEN 0 ELSE cart[1].quantity + totalItems(Tail(cart))

RECURSIVE cartTotal_IgnoresQuantity(_)
cartTotal_IgnoresQuantity(cart) ==
  IF cart = <<>> THEN 0
  ELSE cart[1].price + cartTotal_IgnoresQuantity(Tail(cart))
RECURSIVE cartTotal(_)
\* total += item.price * item.quantity over the cart, in cents
cartTotal(cart) ==
  IF cart = <<>> THEN 0
  ELSE cart[1].price * cart[1].quantity + cartTotal(Tail(cart))

\* ---- localStorage slot (src/app.js) ----
Absent == [kind |-> "absent", cart |-> <<>>]
Corrupt == [kind |-> "corrupt", cart |-> <<>>]
\* JSON.stringify(cart)
stringify(cart) == [kind |-> "json", cart |-> cart]
loadCart_KeepsUnparsed(slot) ==
  IF slot.kind = "json" THEN slot.cart
  ELSE IF slot.kind = "absent" THEN <<>>
  ELSE << [id |-> 0, price |-> 0, quantity |-> 0] >>
\* loadCart: getItem, JSON.parse; absent or unparsable gives []
loadCart(slot) == IF slot.kind = "json" THEN slot.cart ELSE <<>>

\* handleAddToCart of app.js, lines 123-132: the cart to save
AddedCartLocal_NoIncrement(cart, product) ==
  LET i == findIndex(cart, product.id) IN
  IF i # 0 THEN [cart EXCEPT ![i].quantity = 1]
  ELSE Append(cart, [id |-> product.id, price |-> product.price, quantity |-> 1])
AddedCartLocal_AlwaysPush(cart, product) ==
  Append(cart, [id |-> product.id, price |-> product.price, quantity |-> 1])
AddedCartLocal(cart, product) ==
  LET i == findIndex(cart, product.id) IN
  IF i # 0 THEN [cart EXCEPT ![i].quantity = @ + 1]
  ELSE Append(cart, [id |-> product.id, price |-> product.price, quantity |-> 1])

\* ---- Firestore document <-> cart array (part_000) ----
RECURSIVE toDoc(_, _)
\* saveCartToFirestore lines 82-88: cartData[item.id] = item, in array order
toDoc(cartItems, acc) ==
  IF cartItems = <<>> THEN acc
  ELSE LET item == cartItems[1]
           k == item.id
           keys == acc.keys \cup {k}
       IN toDoc(Tail(cartItems),
                [exists |-> TRUE, keys |-> keys,
                 data |-> [x \in keys |-> IF x = k THEN item ELSE acc.data[x]]])

EmptyMap == [exists |-> TRUE, keys |-> {}, data |-> <<>>]

RECURSIVE sortedKeys(_)
\* Object.keys of integer-like keys: ascending numeric order
sortedKeys(S) ==
  IF S = {} THEN <<>>
  ELSE LET m == CHOOSE x \in S : \A y \in S : x <= y
       IN <<m>> \o sortedKeys(S \ {m})

\* onSnapshot callback lines 46-57: the array currentCart becomes
fromDoc(d) ==
  IF d.exists
  THEN LET ks == sortedKeys(d.keys) IN [i \in 1..Len(ks) |-> d.data[ks[i]]]
  ELSE <<>>

\* ---- state ----
VARIABLES
  variant,          \* "local": the page runs src/app.js; "sync": part_000
  firebaseConfig,   \* part_000 line 19: a provider configuration is present
  initialAuthToken, \* part_000 line 20: a custom token was supplied
  page,             \* per client: window.location (page name, ?id=)
  atLoad,           \* the slot and the documents as the run found them
  pc,               \* per client: position in initializeApp
  fetching,         \* per client: fetchProducts calls awaiting their answer
  allProducts,      \* per client
  storage,          \* the localStorage slot fashionhub_cart (local build)
  remote,           \* the cart document of each identity (Firestore)
  authUser,         \* per client: the provider's current user
  attempts,         \* per client: sign-in calls made, in order
  pendingAuth,      \* per client: state-change notifications not yet delivered
  userId,           \* per client
  isAuthReady,      \* per client
  currentCart,      \* per client
  subs,             \* per client: active onSnapshot subscriptions
  reqs,             \* per client: remote requests in flight, oldest first
  notes,            \* per client: the notifications its latest handler showed
  dom,              \* per client: handlers attached and values displayed
  nops,             \* clicks and provider changes so far
  log               \* the clicks, and the remote requests that failed, in order

vars == << variant, firebaseConfig, initialAuthToken, page, atLoad, pc, fetching,
           allProducts, storage, remote, authUser, attempts, pendingAuth,
           userId, isAuthReady, currentCart, subs, reqs, notes, dom, nops,
           log >>

configVars == << variant, firebaseConfig, initialAuthToken, page, atLoad >>
authVars == << authUser, attempts, pendingAuth, userId, isAuthReady >>
syncVars == << remote, currentCart, subs, reqs >>

\* ---- the page ----
PageChoices ==
  {[name |-> n, query |-> 0] : n \in Pages \ {"details"}}
    \cup {[name |-> "details", query |-> q] : q \in QueryIds}

Closed == [name |-> "closed", query |-> 0]    \* a tab that is never opened

\* the pages the clients have open: one client on any page, or two clients
\* on the home page or the cart page (a on the cart page with b on the home
\* page is b on the cart page with a on the home page, renamed)
PairPages == {[name |-> "index", query |-> 0], [name |-> "cart", query |-> 0]}

Scenarios ==
  {[c \in Clients |-> IF c = "a" THEN pg ELSE Closed] : pg \in PageChoices}
    \cup {s \in [Clients -> PairPages] :
            s["a"].name = "cart" => s["b"].name = "cart"}

\* c is the only client open
Alone(c) == \A d \in Clients \ {c} : page[d] = Closed

\* the identities a sign-in of c can yield: two clients open are two tabs of
\* one browser, which the provider gives one identity
Issued(c) == IF Alone(c) THEN Uids ELSE {"u1"}

emptyDom_StaticButton ==
  [addBtns |-> {1}, removeBtns |-> {}, checkoutListeners |-> 0,
   listenerAttached |-> FALSE, checkoutDisabled |-> FALSE,
   cartCount |-> 0, cartTotal |-> 0, notFound |-> FALSE, accountBoxes |-> 0]
emptyDom ==
  [addBtns |-> {}, removeBtns |-> {}, checkoutListeners |-> 0,
   listenerAttached |-> FALSE, checkoutDisabled |-> FALSE,
   cartCount |-> 0, cartTotal |-> 0, notFound |-> FALSE, accountBoxes |-> 0]

Min(a, b) == IF a < b THEN a ELSE b

\* allProducts.filter(p => p.featured).slice(0, 3)
featuredProducts(products) ==
  LET f == SelectSeq(products, LAMBDA p : p.featured)
  IN SubSeq(f, 1, Min(3, Len(f)))

\* renderProducts: one add-to-cart handler per rendered card
renderProducts(d, productsToRender) ==
  [d EXCEPT !.addBtns = Ids(productsToRender)]

initHomePage(d, products) == renderProducts(d, featuredProducts(products))

initProductsPage(d, products) == renderProducts(d, products)

initProductDetailsPage_NoReturn(d, products, productId) ==
  IF d.notFound THEN d
  ELSE IF ~found(products, productId)
       THEN [d EXCEPT !.notFound = TRUE, !.addBtns = {productId}]
       ELSE [d EXCEPT !.addBtns = {productId}]
\* The not-found branch replaces the section that holds the detail elements
\* and the add-to-cart button; a later call finds none of them.
initProductDetailsPage(d, products, productId) ==
  IF d.notFound THEN d
  ELSE IF ~found(products, productId)
       THEN [d EXCEPT !.notFound = TRUE, !.addBtns = {}]
       ELSE [d EXCEPT !.addBtns = {productId}]

initCartPage_NoGuard(d, cart) ==
  IF Len(cart) = 0
  THEN [d EXCEPT !.removeBtns = {}, !.cartTotal = 0, !.checkoutDisabled = TRUE]
  ELSE [d EXCEPT !.removeBtns = Ids(cart),
                 !.cartTotal = cartTotal(cart),
                 !.checkoutDisabled = FALSE,
                 !.checkoutListeners = @ + 1,
                 !.listenerAttached = TRUE]
\* initCartPage: the empty-cart branch returns before the listeners; the
\* checkout listener is added when data-listener-attached is not yet set
initCartPage(d, cart) ==
  IF Len(cart) = 0
  THEN [d EXCEPT !.removeBtns = {}, !.cartTotal = 0, !.checkoutDisabled = TRUE]
  ELSE [d EXCEPT !.removeBtns = Ids(cart),
                 !.cartTotal = cartTotal(cart),
                 !.checkoutDisabled = FALSE,
                 !.checkoutListeners = IF d.listenerAttached THEN @ ELSE @ + 1,
                 !.listenerAttached = TRUE]

setCartCount(d, cart) == [d EXCEPT !.cartCount = totalItems(cart)]

note(type, text) == [type |-> type, text |-> text]

\* a click of client c, and whether its session was ready then
click(c, op, id) == [client |-> c, op |-> op, id |-> id, ready |-> isAuthReady[c]]
failure(c) == [client |-> c, op |-> "failed", id |-> 0, ready |-> isAuthReady[c]]

\* ---- src/app.js: the local build ----
\* the dispatch on window.location.pathname, app.js lines 293-303
initPageLocal(d, pg, products, cart) ==
  CASE pg.name = "index" -> initHomePage(d, products)
    [] pg.name = "products" -> initProductsPage(d, products)
    [] pg.name = "cart" -> initCartPage(d, cart)
    [] pg.name = "details" -> initProductDetailsPage(d, products, pg.query)
    [] OTHER -> d

\* window load: initializeApp starts and awaits fetchProducts
initializeAppLocal(c) ==
  /\ variant = "local"
  /\ page[c] # Closed
  /\ pc[c] = "start"
  /\ pc' = [pc EXCEPT ![c] = "running"]
  /\ fetching' = [fetching EXCEPT ![c] = 1]
  /\ UNCHANGED << configVars, authVars, syncVars, allProducts, storage, notes,
                  dom, nops, log >>

\* the fetch answers: allProducts is set, then updateCartCount and the page
fetchDoneLocal(c, outcome) ==
  /\ variant = "local"
  /\ fetching[c] > 0
  /\ fetching' = [fetching EXCEPT ![c] = 0]
  /\ allProducts' = [allProducts EXCEPT ![c] = fetchProducts(outcome)]
  /\ LET cart == loadCart(storage) IN
     dom' = [dom EXCEPT ![c] =
               initPageLocal(setCartCount(@, cart), page[c],
                             fetchProducts(outcome), cart)]
  /\ UNCHANGED << configVars, authVars, syncVars, pc, storage, notes, nops,
                  log >>

handleAddToCartLocal_StaleRead(c, productId) ==
  /\ variant = "local"
  /\ nops < MaxEvents
  /\ productId \in dom[c].addBtns
  /\ nops' = nops + 1
  /\ log' = Append(log, click(c, "add", productId))
  /\ IF ~found(allProducts[c], productId)
     THEN /\ notes' = [notes EXCEPT ![c] = <<>>]
          /\ UNCHANGED << storage, dom >>
     ELSE LET product == find(allProducts[c], productId)
              cart == AddedCartLocal(loadCart(atLoad.storage), product) IN
          /\ storage' = stringify(cart)
          /\ dom' = [dom EXCEPT ![c] = setCartCount(@, cart)]
          /\ notes' = [notes EXCEPT ![c] = <<note("success", "added")>>]
  /\ UNCHANGED << configVars, authVars, syncVars, pc, fetching, allProducts >>
\* click on an add-to-cart button whose data-product-id is productId
handleAddToCartLocal(c, productId) ==
  /\ variant = "local"
  /\ nops < MaxEvents
  /\ productId \in dom[c].addBtns
  /\ nops' = nops + 1
  /\ log' = Append(log, click(c, "add", productId))
  /\ IF ~found(allProducts[c], productId)
     THEN /\ notes' = [notes EXCEPT ![c] = <<>>]
          /\ UNCHANGED << storage, dom >>
     ELSE LET product == find(allProducts[c], productId)
              cart == AddedCartLocal(loadCart(storage), product) IN
          /\ storage' = stringify(cart)
          /\ dom' = [dom EXCEPT ![c] = setCartCount(@, cart)]
          /\ notes' = [notes EXCEPT ![c] = <<note("success", "added")>>]
  /\ UNCHANGED << configVars, authVars, syncVars, pc, fetching, allProducts >>

\* click on a Remove button of the rendered cart
handleRemoveFromCartLocal(c, productId) ==
  /\ variant = "local"
  /\ nops < MaxEvents
  /\ productId \in dom[c].removeBtns
  /\ nops' = nops + 1
  /\ log' = Append(log, click(c, "remove", productId))
  /\ LET cart == filterOut(loadCart(storage), productId) IN
     /\ storage' = stringify(cart)
     /\ dom' = [dom EXCEPT ![c] = initCartPage(setCartCount(@, cart), cart)]
  /\ notes' = [notes EXCEPT ![c] = <<note("info", "removed")>>]
  /\ UNCHANGED << configVars, authVars, syncVars, pc, fetching, allProducts >>

\* click on the checkout button: every attached listener runs handleCheckout
handleCheckoutLocal(c) ==
  /\ variant = "local"
  /\ nops < MaxEvents
  /\ dom[c].checkoutListeners > 0
  /\ ~dom[c].checkoutDisabled
  /\ nops' = nops + 1
  /\ log' = Append(log, click(c, "checkout", 0))
  /\ storage' = stringify(<<>>)
  /\ dom' = [dom EXCEPT ![c] = initCartPage(setCartCount(@, <<>>), <<>>)]
  /\ notes' = [notes EXCEPT ![c] =
                 [i \in 1..dom[c].checkoutListeners |->
                    note("success", "checkout")]]
  /\ UNCHANGED << configVars, authVars, syncVars, pc, fetching, allProducts >>

NextLocal ==
  \E c \in Clients :
    \/ initializeAppLocal(c)
    \/ \E o \in FetchOutcomes : fetchDoneLocal(c, o)
    \/ \E p \in ClickIds : handleAddToCartLocal(c, p)
    \/ \E p \in ClickIds : handleRemoveFromCartLocal(c, p)
    \/ handleCheckoutLocal(c)

\* a cart an earlier page load of this build left in the slot
StoredBefore == stringify(<< [id |-> 2, price |-> 7999, quantity |-> 1] >>)

\* a cart of two lines left in the slot
StoredTwo ==
  stringify(<< [id |-> 2, price |-> 7999, quantity |-> 1],
               [id |-> 3, price |-> 11950, quantity |-> 1] >>)

InitCommon ==
  /\ page \in Scenarios
  /\ pc = [c \in Clients |-> "start"]
  /\ fetching = [c \in Clients |-> 0]
  /\ allProducts = [c \in Clients |-> <<>>]
  /\ authUser = [c \in Clients |-> Null]
  /\ attempts = [c \in Clients |-> <<>>]
  /\ pendingAuth = [c \in Clients |-> <<>>]
  /\ userId = [c \in Clients |-> Null]
  /\ isAuthReady = [c \in Clients |-> FALSE]
  /\ currentCart = [c \in Clients |-> <<>>]
  /\ subs = [c \in Clients |-> <<>>]
  /\ reqs = [c \in Clients |-> <<>>]
  /\ notes = [c \in Clients |-> <<>>]
  /\ dom = [c \in Clients |-> emptyDom]
  /\ nops = 0
  /\ log = <<>>

InitLocal ==
  /\ variant = "local"
  /\ firebaseConfig = FALSE
  /\ initialAuthToken = FALSE
  /\ storage \in {Absent, Corrupt, StoredBefore, StoredTwo}
  /\ remote = [u \in Uids |-> NoDoc]
  /\ atLoad = [storage |-> storage, remote |-> remote]
  /\ InitCommon

SpecLocal == InitLocal /\ [][NextLocal]_vars

\* ---- src/unnamed/part_000: the Firestore build ----
\* initPageLogic, lines 416-430
initAccountPage(d, uid) ==
  IF uid # Null THEN [d EXCEPT !.accountBoxes = @ + 1] ELSE d

initPageLogic(d, pg, products, cart, uid) ==
  CASE pg.name = "index" -> initHomePage(d, products)
    [] pg.name = "products" -> initProductsPage(d, products)
    [] pg.name = "cart" -> initCartPage(d, cart)
    [] pg.name = "details" -> initProductDetailsPage(d, products, pg.query)
    [] pg.name = "account" -> initAccountPage(d, uid)

\* the first sign-in call of initializeApp, lines 375-379
firstSignIn == IF initialAuthToken THEN "customToken" ELSE "anonymous"

\* setupRealtimeCartListener: onSnapshot adds a subscription whose first
\* snapshot is the document as it is; the unsubscribe function is dropped
setupRealtimeCartListener(ss, ready, uid, db, doc) ==
  IF ~ready \/ uid = Null \/ ~db THEN ss
  ELSE Append(ss, [uid |-> uid, queue |-> <<doc>>])

\* the store tells every subscription on the document of uid its new state
publish(allSubs, uid, doc) ==
  [c \in Clients |->
    [i \in 1..Len(allSubs[c]) |->
      IF allSubs[c][i].uid = uid
      THEN [allSubs[c][i] EXCEPT !.queue = Append(@, doc)]
      ELSE allSubs[c][i]]]

saveRequest_AlwaysSet(cartItems, uid, after) ==
  [kind |-> "setDoc", uid |-> uid, doc |-> toDoc(cartItems, EmptyMap),
   after |-> after]
\* saveCartToFirestore, lines 84-109: the request the call starts with
saveRequest(cartItems, uid, after) ==
  IF Len(cartItems) > 0
  THEN [kind |-> "setDoc", uid |-> uid, doc |-> toDoc(cartItems, EmptyMap),
        after |-> after]
  ELSE [kind |-> "getDoc", uid |-> uid, doc |-> NoDoc, after |-> after]

written_Merge(old, doc) ==
  LET keys == old.keys \cup doc.keys IN
  [exists |-> TRUE, keys |-> keys,
   data |-> [k \in keys |-> IF k \in doc.keys THEN doc.data[k] ELSE old.data[k]]]
\* setDoc(cartDocRef, cartData) without merge: the document after the write
written(old, doc) == doc

\* handleAddToCart, lines 205-220: updatedCart
updatedCartAdd(cart, product) ==
  LET i == findIndex(cart, product.id) IN
  IF i # 0 THEN [cart EXCEPT ![i].quantity = @ + 1]
  ELSE Append(cart, [id |-> product.id, price |-> product.price, quantity |-> 1])

\* [...currentCart] copies the array, not its items: the increment of an
\* existing line is made on the item currentCart holds too
currentCartAfterAdd(cart, product) ==
  LET i == findIndex(cart, product.id) IN
  IF i # 0 THEN [cart EXCEPT ![i].quantity = @ + 1] ELSE cart

saveCartToFirestore_NoGuard(c, cartItems, shown, after) ==
  /\ reqs' = [reqs EXCEPT ![c] =
                Append(@, saveRequest(cartItems, userId[c], after))]
  /\ notes' = [notes EXCEPT ![c] = shown]
\* saveCartToFirestore as called by a handler that has shown `shown` and
\* shows `after` once the call returns: the guard of lines 76-79, else the
\* request
saveCartToFirestore(c, cartItems, shown, after) ==
  IF ~isAuthReady[c] \/ userId[c] = Null \/ ~firebaseConfig
  THEN /\ notes' = [notes EXCEPT ![c] =
                      shown \o <<note("error", "not_authenticated")>> \o after]
       /\ reqs' = reqs
  ELSE /\ reqs' = [reqs EXCEPT ![c] =
                     Append(@, saveRequest(cartItems, userId[c], after))]
       /\ notes' = [notes EXCEPT ![c] = shown]

initializeApp(c) ==
  /\ variant = "sync"
  /\ page[c] # Closed
  /\ pc[c] = "start"
  /\ IF firebaseConfig
     THEN /\ pc' = [pc EXCEPT ![c] = "signin"]
          /\ attempts' = [attempts EXCEPT ![c] =
                            Append(@, [kind |-> firstSignIn, result |-> "pending"])]
          /\ UNCHANGED fetching
     ELSE /\ pc' = [pc EXCEPT ![c] = "running"]
          /\ fetching' = [fetching EXCEPT ![c] = @ + 1]
          /\ UNCHANGED attempts
  /\ UNCHANGED << configVars, syncVars, allProducts, storage, notes, dom, nops,
                  log, authUser, pendingAuth, userId, isAuthReady >>

signInDone_FailureStops(c, result) ==
  /\ variant = "sync"
  /\ pc[c] = "signin"
  /\ IF result = Null
     THEN /\ pc' = [pc EXCEPT ![c] = "failed"]
          /\ notes' = [notes EXCEPT ![c] = <<note("error", "auth_failed")>>]
          /\ UNCHANGED << authUser, pendingAuth >>
     ELSE /\ pc' = [pc EXCEPT ![c] = "listening"]
          /\ authUser' = [authUser EXCEPT ![c] = result]
          /\ pendingAuth' = [pendingAuth EXCEPT ![c] = Append(@, result)]
          /\ UNCHANGED notes
  /\ attempts' = [attempts EXCEPT ![c][Len(attempts[c])].result =
                        IF result = Null THEN "failed" ELSE "ok"]
  /\ UNCHANGED << configVars, syncVars, allProducts, storage, dom, nops, log,
                  fetching, userId, isAuthReady >>
\* the sign-in call settles (lines 374-383), then onAuthStateChanged
\* registers the callback, which is first told the current user
signInDone(c, result) ==
  /\ variant = "sync"
  /\ pc[c] = "signin"
  /\ pc' = [pc EXCEPT ![c] = "listening"]
  /\ IF result = Null
     THEN /\ notes' = [notes EXCEPT ![c] = <<note("error", "auth_failed")>>]
          /\ UNCHANGED authUser
     ELSE /\ authUser' = [authUser EXCEPT ![c] = result]
          /\ UNCHANGED notes
  /\ attempts' = [attempts EXCEPT ![c][Len(attempts[c])].result =
                        IF result = Null THEN "failed" ELSE "ok"]
  /\ pendingAuth' = [pendingAuth EXCEPT ![c] = Append(@, authUser'[c])]
  /\ UNCHANGED << configVars, syncVars, allProducts, storage, dom, nops, log,
                  fetching, userId, isAuthReady >>

\* the provider's user changes later (sign-out elsewhere, another account);
\* explored for a client that is the only one open
providerChange(c, user) ==
  /\ variant = "sync"
  /\ Alone(c)
  /\ pc[c] = "listening"
  /\ nops < MaxEvents
  /\ user # authUser[c]
  /\ authUser' = [authUser EXCEPT ![c] = user]
  /\ pendingAuth' = [pendingAuth EXCEPT ![c] = Append(@, user)]
  /\ nops' = nops + 1
  /\ UNCHANGED << configVars, syncVars, allProducts, storage, dom, pc, log,
                  fetching, attempts, userId, isAuthReady, notes >>

\* the onAuthStateChanged callback, lines 385-408, up to its await
authStateChanged(c) ==
  /\ variant = "sync"
  /\ pendingAuth[c] # <<>>
  /\ pendingAuth' = [pendingAuth EXCEPT ![c] = Tail(@)]
  /\ LET user == Head(pendingAuth[c]) IN
     IF user # Null
     THEN /\ userId' = [userId EXCEPT ![c] = user]
          /\ isAuthReady' = [isAuthReady EXCEPT ![c] = TRUE]
          /\ subs' = [subs EXCEPT ![c] =
                        setupRealtimeCartListener(@, TRUE, user, firebaseConfig,
                                                  remote[user])]
     ELSE /\ \E r \in RandomIds \ {userId[c]} :
               userId' = [userId EXCEPT ![c] = r]
          /\ isAuthReady' = [isAuthReady EXCEPT ![c] = FALSE]
          /\ UNCHANGED subs
  /\ fetching' = [fetching EXCEPT ![c] = @ + 1]
  /\ UNCHANGED << configVars, allProducts, storage, dom, nops, log, pc,
                  attempts, authUser, notes, remote, currentCart, reqs >>

\* a fetchProducts call answers; its caller goes on to initPageLogic
fetchDone(c, outcome) ==
  /\ variant = "sync"
  /\ fetching[c] > 0
  /\ fetching' = [fetching EXCEPT ![c] = @ - 1]
  /\ allProducts' = [allProducts EXCEPT ![c] = fetchProducts(outcome)]
  /\ dom' = [dom EXCEPT ![c] =
               initPageLogic(@, page[c], fetchProducts(outcome),
                             currentCart[c], userId[c])]
  /\ UNCHANGED << configVars, authVars, syncVars, pc, storage, notes, nops,
                  log >>

\* click on an add-to-cart button, lines 195-224, up to the await
handleAddToCart(c, productId) ==
  /\ variant = "sync"
  /\ nops < MaxEvents
  /\ productId \in dom[c].addBtns
  /\ nops' = nops + 1
  /\ log' = Append(log, click(c, "add", productId))
  /\ IF ~found(allProducts[c], productId)
     THEN /\ notes' = [notes EXCEPT ![c] = <<>>]
          /\ UNCHANGED << reqs, currentCart >>
     ELSE IF ~isAuthReady[c]
     THEN /\ notes' = [notes EXCEPT ![c] = <<note("info", "wait_session")>>]
          /\ UNCHANGED << reqs, currentCart >>
     ELSE LET product == find(allProducts[c], productId) IN
          /\ currentCart' = [currentCart EXCEPT ![c] =
                               currentCartAfterAdd(@, product)]
          /\ saveCartToFirestore(c, updatedCartAdd(currentCart[c], product),
                                 <<>>, <<note("success", "added")>>)
  /\ UNCHANGED << configVars, authVars, allProducts, storage, dom, pc,
                  fetching, remote, subs >>

\* click on a Remove button, lines 229-237, up to the await
handleRemoveFromCart(c, productId) ==
  /\ variant = "sync"
  /\ nops < MaxEvents
  /\ productId \in dom[c].removeBtns
  /\ nops' = nops + 1
  /\ log' = Append(log, click(c, "remove", productId))
  /\ saveCartToFirestore(c, filterOut(currentCart[c], productId),
                         <<>>, <<note("info", "removed")>>)
  /\ UNCHANGED << configVars, authVars, allProducts, storage, dom, pc,
                  fetching, remote, subs, currentCart >>

\* click on the checkout button, lines 239-247, up to the await
handleCheckout(c) ==
  /\ variant = "sync"
  /\ nops < MaxEvents
  /\ dom[c].checkoutListeners > 0
  /\ ~dom[c].checkoutDisabled
  /\ nops' = nops + 1
  /\ log' = Append(log, click(c, "checkout", 0))
  /\ saveCartToFirestore(c, <<>>, <<note("info", "processing")>>,
                         <<note("success", "checkout")>>)
  /\ UNCHANGED << configVars, authVars, allProducts, storage, dom, pc,
                  fetching, remote, subs, currentCart >>

\* the oldest request of c settles; the handler awaiting it continues
requestDone(c, ok) ==
  /\ variant = "sync"
  /\ reqs[c] # <<>>
  /\ LET r == Head(reqs[c])
         doc == IF r.kind = "setDoc" THEN written(remote[r.uid], r.doc) ELSE NoDoc
     IN
     CASE r.kind = "getDoc" /\ ok /\ remote[r.uid].exists ->
            /\ reqs' = [reqs EXCEPT ![c] = <<[r EXCEPT !.kind = "deleteDoc"]>> \o Tail(@)]
            /\ UNCHANGED << remote, subs, notes >>
       [] r.kind = "getDoc" /\ ~(ok /\ remote[r.uid].exists) ->
            /\ reqs' = [reqs EXCEPT ![c] = Tail(@)]
            /\ notes' = [notes EXCEPT ![c] = r.after]
            /\ UNCHANGED << remote, subs >>
       [] r.kind # "getDoc" /\ ok ->
            /\ reqs' = [reqs EXCEPT ![c] = Tail(@)]
            /\ remote' = [remote EXCEPT ![r.uid] = doc]
            /\ subs' = IF doc = remote[r.uid] THEN subs
                       ELSE publish(subs, r.uid, doc)
            /\ notes' = [notes EXCEPT ![c] = r.after]
       [] r.kind # "getDoc" /\ ~ok ->
            /\ reqs' = [reqs EXCEPT ![c] = Tail(@)]
            /\ notes' = [notes EXCEPT ![c] =
                           (IF r.kind = "setDoc"
                            THEN <<note("error", "save_failed")>> ELSE <<>>)
                             \o r.after]
            /\ UNCHANGED << remote, subs >>
  /\ log' = IF ok THEN log ELSE Append(log, failure(c))
  /\ UNCHANGED << configVars, authVars, allProducts, storage, dom, pc,
                  fetching, currentCart, nops >>

snapshot_KeepsOld(c, i) ==
  /\ variant = "sync"
  /\ i \in 1..Len(subs[c])
  /\ subs[c][i].queue # <<>>
  /\ subs' = [subs EXCEPT ![c][i].queue = Tail(@)]
  /\ LET cart == currentCart[c] \o fromDoc(Head(subs[c][i].queue)) IN
     /\ currentCart' = [currentCart EXCEPT ![c] = cart]
     /\ dom' = [dom EXCEPT ![c] =
                  IF page[c].name = "cart"
                  THEN initCartPage(setCartCount(@, cart), cart)
                  ELSE setCartCount(@, cart)]
  /\ UNCHANGED << configVars, authVars, allProducts, storage, pc, fetching,
                  remote, reqs, notes, nops, log >>
\* the onSnapshot callback, lines 45-64, for the next snapshot of a subscription
snapshot(c, i) ==
  /\ variant = "sync"
  /\ i \in 1..Len(subs[c])
  /\ subs[c][i].queue # <<>>
  /\ subs' = [subs EXCEPT ![c][i].queue = Tail(@)]
  /\ LET cart == fromDoc(Head(subs[c][i].queue)) IN
     /\ currentCart' = [currentCart EXCEPT ![c] = cart]
     /\ dom' = [dom EXCEPT ![c] =
                  IF page[c].name = "cart"
                  THEN initCartPage(setCartCount(@, cart), cart)
                  ELSE setCartCount(@, cart)]
  /\ UNCHANGED << configVars, authVars, allProducts, storage, pc, fetching,
                  remote, reqs, notes, nops, log >>

NextSync ==
  \E c \in Clients :
    \/ initializeApp(c)
    \/ \E r \in Issued(c) \cup {Null} : signInDone(c, r)
    \/ \E u \in Uids \cup {Null} : providerChange(c, u)
    \/ authStateChanged(c)
    \/ \E o \in FetchOutcomes : fetchDone(c, o)
    \/ \E p \in ClickIds : handleAddToCart(c, p)
    \/ \E p \in ClickIds : handleRemoveFromCart(c, p)
    \/ handleCheckout(c)
    \/ \E ok \in BOOLEAN : requestDone(c, ok)
    \/ \E i \in 1..Len(subs[c]) : snapshot(c, i)

\* a cart an earlier page load of u1 left in the store
RemoteBefore == toDoc(<< [id |-> 2, price |-> 7999, quantity |-> 1] >>, EmptyMap)

\* a custom token is explored for a client that is the only one open
InitSync ==
  /\ variant = "sync"
  /\ InitCommon
  /\ firebaseConfig \in BOOLEAN
  /\ initialAuthToken \in (IF firebaseConfig /\ Alone("a") THEN BOOLEAN ELSE {FALSE})
  /\ storage = Absent
  /\ remote \in {[u \in Uids |-> NoDoc],
                 [u \in Uids |-> IF u = "u1" THEN RemoteBefore ELSE NoDoc]}
  /\ atLoad = [storage |-> storage, remote |-> remote]

SpecSync == InitSync /\ [][NextSync]_vars

Init == InitLocal \/ InitSync

Next == NextLocal \/ NextSync

Spec == Init /\ [][Next]_vars

\* the steps of client c that the browser runs without the user: the load
\* event, and the continuations of the sign-in call, of the auth-state
\* callback and of the catalog fetch, each of which settles
PageLoadStep(c) ==
  \/ initializeAppLocal(c)
  \/ \E o \in FetchOutcomes : fetchDoneLocal(c, o)
  \/ initializeApp(c)
  \/ \E r \in Issued(c) \cup {Null} : signInDone(c, r)
  \/ authStateChanged(c)
  \/ \E o \in FetchOutcomes : fetchDone(c, o)

FairSpec == Spec /\ \A c \in Clients : WF_vars(PageLoadStep(c))

\* ---- properties ----
Count(cart, id) == Cardinality({i \in 1..Len(cart) : cart[i].id = id})

QtyOf(cart, id) == IF found(cart, id) THEN find(cart, id).quantity ELSE 0

NoDup(cart) == \A i, j \in 1..Len(cart) : cart[i].id = cart[j].id => i = j

Last(s) == s[Len(s)]

\* every click so far was an add of product p
AddsOnly(p) ==
  /\ log # <<>>
  /\ \A i \in 1..Len(log) : log[i].op = "add" /\ log[i].id = p

\* the step is a click handled by client c
Clicked(c) ==
  \/ \E p \in ClickIds : handleAddToCart(c, p)
  \/ \E p \in ClickIds : handleRemoveFromCart(c, p)
  \/ handleCheckout(c)

Shows(c, text) == \E i \in 1..Len(notes[c]) : notes[c][i].text = text

\* C1: local build: from a stored cart with no line for p, n adds of p (and
\* no other click) leave exactly one line for p, with quantity n.
C1_LocalAddsMakeOneLine ==
  variant = "local" =>
    \A p \in ClickIds :
      (AddsOnly(p) /\ Count(loadCart(atLoad.storage), p) = 0)
        => /\ Count(loadCart(storage), p) = 1
           /\ QtyOf(loadCart(storage), p) = Len(log)

C1_Witness ==
  /\ variant = "local"
  /\ \E p \in ClickIds :
       /\ AddsOnly(p) /\ Len(log) = 2
       /\ Count(loadCart(atLoad.storage), p) = 0
       /\ QtyOf(loadCart(storage), p) = 2

\* C2: Firestore build: with a ready identity and a document that has no line
\* for p, two adds of p by one client (nothing else clicked, no request
\* failed), once both writes are done, leave the document with exactly one
\* line for p, with quantity 2.
C2_SyncTwoAddsGiveTwo ==
  variant = "sync" =>
    \A c \in Clients : \A p \in ClickIds :
      ( /\ log = << [client |-> c, op |-> "add", id |-> p, ready |-> TRUE],
                    [client |-> c, op |-> "add", id |-> p, ready |-> TRUE] >>
        /\ reqs[c] = <<>>
        /\ userId[c] \in Uids
        /\ p \notin atLoad.remote[userId[c]].keys )
      => /\ remote[userId[c]].exists
         /\ Count(fromDoc(remote[userId[c]]), p) = 1
         /\ QtyOf(fromDoc(remote[userId[c]]), p) = 2

\* C3: no cart holds two lines with the same product id: the stored cart,
\* each in-memory cart, each remote document (whose lines sit under their id).
C3_NoDuplicateLines ==
  /\ NoDup(loadCart(storage))
  /\ \A c \in Clients : NoDup(currentCart[c])
  /\ \A u \in Uids :
       /\ NoDup(fromDoc(remote[u]))
       /\ \A k \in remote[u].keys : remote[u].data[k].id = k

C3_Witness ==
  \E c \in Clients : \E u \in Uids :
    /\ userId[c] = u
    /\ \E i \in 1..Len(log) : log[i].op = "add" /\ log[i].id = 2
    /\ Len(currentCart[c]) = 2
    /\ QtyOf(currentCart[c], 2) = 2
    /\ fromDoc(remote[u]) = currentCart[c]

\* C4: Firestore build: a click handled while the session is not ready starts
\* no request and changes no document, and a notification says so; a request
\* is only ever started by a click handled while the session is ready, one
\* per click, so a dropped write is never started later.
C4_NotReadyWriteDropped ==
  [][\A c \in Clients :
       /\ (~isAuthReady[c] /\ Clicked(c))
            => /\ reqs' = reqs
               /\ remote' = remote
               /\ \E i \in 1..Len(notes'[c]) :
                    notes'[c][i].text \in {"wait_session", "not_authenticated"}
       /\ Len(reqs'[c]) > Len(reqs[c])
            => /\ isAuthReady[c] /\ Clicked(c)
               /\ Len(reqs'[c]) = Len(reqs[c]) + 1]_vars

C4_Witness ==
  \E c \in Clients :
    /\ isAuthReady[c]
    /\ \E i \in 1..Len(log) : log[i].client = c /\ ~log[i].ready
    /\ Shows(c, "wait_session") \/ Shows(c, "not_authenticated")
    /\ reqs[c] = <<>>
    /\ remote = atLoad.remote

\* C5: a client never has more than one active cart subscription.
C5_OneSubscription == \A c \in Clients : Len(subs[c]) <= 1

\* C6: the in-memory cart changes only in a subscription delivery: add and
\* remove leave it, and the quantity of each of its lines, as they were.
C6_OnlySnapshotChangesCart ==
  [][\A c \in Clients :
       currentCart'[c] # currentCart[c]
         => \E i \in 1..Len(subs[c]) : snapshot(c, i)]_vars

\* C7: a write whose resulting cart is empty reads the document and, when it
\* exists, deletes it; no request writes an empty map, and no document
\* exists with zero lines.
C7_EmptyCartDeletes ==
  /\ [](/\ \A c \in Clients : \A i \in 1..Len(reqs[c]) :
             reqs[c][i].kind = "setDoc" => reqs[c][i].doc.keys # {}
        /\ \A u \in Uids : remote[u].exists => remote[u].keys # {})
  /\ [][\A c \in Clients :
          /\ ( /\ isAuthReady[c]
               /\ \/ handleCheckout(c)
                  \/ \E p \in ClickIds :
                       /\ handleRemoveFromCart(c, p)
                       /\ filterOut(currentCart[c], p) = <<>> )
               => Last(reqs'[c]).kind = "getDoc"
          /\ (reqs[c] # <<>> /\ requestDone(c, TRUE))
               => LET r == Head(reqs[c]) IN
                  /\ (r.kind = "getDoc" /\ remote[r.uid].exists)
                       => Head(reqs'[c]).kind = "deleteDoc"
                  /\ r.kind = "deleteDoc" => ~remote'[r.uid].exists]_vars

C7_Witness ==
  \E c \in Clients :
    /\ Len(log) = 1
    /\ log[1].client = c /\ log[1].op \in {"remove", "checkout"} /\ log[1].ready
    /\ reqs[c] = <<>>
    /\ userId[c] \in Uids
    /\ atLoad.remote[userId[c]].exists
    /\ ~remote[userId[c]].exists

\* C8: a successful setDoc replaces the whole document by what the writer
\* sent, whatever the document held: two clients of one identity that add
\* different products can leave only one of the two lines.
C8_LastWriteWins ==
  [][\A c \in Clients :
       (reqs[c] # <<>> /\ Head(reqs[c]).kind = "setDoc" /\ requestDone(c, TRUE))
         => remote'[Head(reqs[c]).uid] = Head(reqs[c]).doc]_vars

C8_Witness ==
  \E c, d \in Clients : \E p, q \in ClickIds :
    /\ c # d /\ p # q
    /\ log = << [client |-> c, op |-> "add", id |-> p, ready |-> TRUE],
                [client |-> d, op |-> "add", id |-> q, ready |-> TRUE] >>
    /\ userId[c] = userId[d] /\ userId[c] \in Uids
    /\ reqs[c] = <<>> /\ reqs[d] = <<>>
    /\ ~atLoad.remote[userId[c]].exists
    /\ Cardinality(remote[userId[c]].keys) = 1

\* C9: once the session is resolved (an identity is set), neither the ready
\* flag nor the identity changes again.
C9_SessionResolvedOnce ==
  [][\A c \in Clients :
       userId[c] # Null
         => userId'[c] = userId[c] /\ isAuthReady'[c] = isAuthReady[c]]_vars

\* C10: with a provider configured, a session that is degraded after its first
\* sign-in failed has attempted an anonymous sign-in after that failure.
C10_AnonymousFallbackTried ==
  \A c \in Clients :
    ( /\ firebaseConfig
      /\ attempts[c] # <<>>
      /\ attempts[c][1].result = "failed"
      /\ userId[c] \in RandomIds /\ ~isAuthReady[c] )
    => \E i \in 2..Len(attempts[c]) : attempts[c][i].kind = "anonymous"

\* C11: Firestore build without a provider configuration: once the page is
\* loaded the session has a random local identity, and after a click on the
\* add-to-cart button of a catalog product p the cart store of the session
\* (the localStorage slot) holds a line for p.
C11_NoProviderAddPersists ==
  \A c \in Clients :
    ( /\ variant = "sync" /\ ~firebaseConfig
      /\ pc[c] = "running" /\ fetching[c] = 0 /\ allProducts[c] # <<>> )
    => /\ userId[c] \in RandomIds
       /\ \A i \in 1..Len(log) :
            ( /\ log[i].client = c /\ log[i].op = "add"
              /\ found(allProducts[c], log[i].id) )
            => found(loadCart(storage), log[i].id)

\* the quantities of the lines of a document, added up
RECURSIVE QtySum(_, _)
QtySum(doc, keys) ==
  IF keys = {} THEN 0
  ELSE LET k == CHOOSE x \in keys : TRUE
       IN doc.data[k].quantity + QtySum(doc, keys \ {k})

\* C12: Firestore build: a subscription delivery leaves the in-memory cart
\* with exactly the lines of the delivered document, one per key and nothing
\* of what it held before (no line when the document does not exist), shows
\* the item count of that cart and, on the cart page, renders that cart.
C12_DeliveryReplacesCart ==
  [][\A c \in Clients : \A i \in 1..Len(subs[c]) :
       snapshot(c, i) =>
         LET doc == Head(subs[c][i].queue)
             cart == currentCart'[c]
         IN /\ Len(cart) = Cardinality(doc.keys)
            /\ Range(cart) = {doc.data[k] : k \in doc.keys}
            /\ ~doc.exists => cart = <<>>
            /\ dom'[c].cartCount = QtySum(doc, doc.keys)
            /\ page[c].name = "cart"
                 => /\ dom'[c].removeBtns = doc.keys
                    /\ dom'[c].checkoutDisabled = (doc.keys = {})]_vars

\* a delivery of the deleted document emptied a cart page that showed lines
C12_Witness ==
  \E c \in Clients :
    /\ page[c].name = "cart"
    /\ userId[c] \in Uids
    /\ atLoad.remote[userId[c]].exists
    /\ ~remote[userId[c]].exists
    /\ \A i \in 1..Len(subs[c]) : subs[c][i].queue = <<>>
    /\ dom[c].listenerAttached
    /\ currentCart[c] = <<>>
    /\ dom[c].checkoutDisabled /\ dom[c].removeBtns = {} /\ dom[c].cartCount = 0

\* C13: both builds: whatever the catalog fetch answers, the call completes
\* and leaves a product list: the body of a 2xx answer, else (transport
\* error, other status) the five fallback products with ids 1..5, of which
\* the featured ones, those the home page then shows, are ids 1 and 2.
C13_CatalogNeverFails ==
  [][\A c \in Clients : \A o \in FetchOutcomes :
       (fetchDoneLocal(c, o) \/ fetchDone(c, o)) =>
         LET list == allProducts'[c] IN
         /\ Len(list) > 0
         /\ o.kind = "ok" => list = o.body
         /\ o.kind \in {"error", "status500"} =>
              /\ Len(list) = 5
              /\ \A i \in 1..5 : list[i].id = i
              /\ {list[i].id : i \in {j \in 1..5 : list[j].featured}} = {1, 2}
              /\ page[c].name = "index" => dom'[c].addBtns = {1, 2}]_vars

\* a home page that shows the featured products of the fallback list
C13_Witness ==
  \E c \in Clients :
    /\ page[c].name = "index"
    /\ fetching[c] = 0
    /\ allProducts[c] = fallbackProducts
    /\ dom[c].addBtns = {1, 2}

\* C14: local build: a click on a Remove button whose product has no line in
\* the stored cart (another tab removed it) leaves the stored cart as it
\* was: the same lines with the same quantities.
C14_RemoveAbsentKeepsCart ==
  [][\A c \in Clients : \A p \in ClickIds :
       (handleRemoveFromCartLocal(c, p) /\ ~found(loadCart(storage), p))
         => loadCart(storage') = loadCart(storage)]_vars

\* two tabs showed the two lines; both clicked Remove of product 2: the
\* second click found no line for it and the other line is still stored
C14_Witness ==
  /\ variant = "local"
  /\ Len(log) = 2
  /\ log[1].op = "remove" /\ log[2].op = "remove"
  /\ log[1].id = log[2].id /\ log[1].client # log[2].client
  /\ loadCart(storage) = << [id |-> 3, price |-> 11950, quantity |-> 1] >>

\* C15: both builds: however often the cart page is rendered, the checkout
\* button carries at most one checkout listener, and a click on it runs the
\* checkout action once: one "processing"/"successful" pass and at most one
\* remote request.
C15_CheckoutRegisteredOnce ==
  /\ [](\A c \in Clients : dom[c].checkoutListeners <= 1)
  /\ [][\A c \in Clients :
          /\ handleCheckoutLocal(c)
               => notes'[c] = << note("success", "checkout") >>
          /\ handleCheckout(c)
               => /\ Len(SelectSeq(notes'[c], LAMBDA n : n.text = "processing")) = 1
                  /\ Len(reqs'[c]) <= Len(reqs[c]) + 1]_vars

\* a cart page rendered with lines by the first snapshot and by the page
\* load, then emptied by its one checkout click
C15_Witness ==
  \E c \in Clients :
    /\ page[c].name = "cart"
    /\ log = << [client |-> c, op |-> "checkout", id |-> 0, ready |-> TRUE] >>
    /\ allProducts[c] # <<>> /\ fetching[c] = 0
    /\ reqs[c] = <<>>
    /\ \A i \in 1..Len(subs[c]) : subs[c][i].queue = <<>>
    /\ currentCart[c] = <<>>
    /\ dom[c].checkoutListeners = 1
    /\ dom[c].checkoutDisabled

\* what the renderer of the page of c leaves when it has run on the catalog
Rendered(c) ==
  CASE page[c].name = "index" ->
         dom[c].addBtns = Ids(featuredProducts(allProducts[c]))
    [] page[c].name = "products" -> dom[c].addBtns = Ids(allProducts[c])
    [] page[c].name = "cart" -> dom[c].checkoutDisabled \/ dom[c].listenerAttached
    [] page[c].name = "details" ->
         dom[c].notFound \/ dom[c].addBtns = {page[c].query}
    [] page[c].name = "account" ->
         (variant = "sync" /\ userId[c] # Null) => dom[c].accountBoxes > 0
    [] OTHER -> FALSE

Loaded(c) ==
  /\ pc[c] \in {"running", "listening"}
  /\ pendingAuth[c] = <<>>
  /\ fetching[c] = 0
  /\ allProducts[c] # <<>>
  /\ Rendered(c)

C17_AddOnlyAfterCatalog ==
  /\ [](\A c \in Clients :
          dom[c].addBtns # {} => (pc[c] # "start" /\ allProducts[c] # <<>>))
  /\ [][\A c \in Clients : \A p \in ClickIds :
          (handleAddToCartLocal(c, p) \/ handleAddToCart(c, p))
            => allProducts[c] # <<>>]_vars

\* an add-to-cart click handled on a fetched catalog
C17_Witness ==
  \E c \in Clients :
    /\ log # <<>> /\ log[1].client = c /\ log[1].op = "add"
    /\ allProducts[c] \in ApiResponses
    /\ log[1].id \in dom[c].addBtns

\* C18: both builds: a product-details page whose query id is the id of no
\* product of the loaded catalog shows the not-found state and has no
\* add-to-cart handler, and no click is handled on a page in that state.
C18_UnknownIdNotFound ==
  /\ [](\A c \in Clients :
          ( /\ page[c].name = "details"
            /\ allProducts[c] # <<>>
            /\ ~found(allProducts[c], page[c].query) )
          => (dom[c].notFound /\ dom[c].addBtns = {}))
  /\ [][\A c \in Clients :
          (page[c].name = "details" /\ dom[c].notFound /\ Len(log') > Len(log))
            => (Last(log').client # c \/ Last(log').op = "failed")]_vars

\* the details page of id 9, loaded on either catalog
C18_Witness ==
  \E c \in Clients :
    /\ page[c] = [name |-> "details", query |-> 9]
    /\ fetching[c] = 0
    /\ allProducts[c] # <<>>
    /\ dom[c].notFound
    /\ log = <<>>

\* C19: local build: with the slot absent or unparsable at page load, the
\* page loads showing an empty cart (count 0, nothing raised), and after a
\* first click, an add of p, the slot holds exactly one line, for p, with
\* quantity 1.
C19_AbsentOrCorruptIsEmpty ==
  (variant = "local" /\ atLoad.storage \in {Absent, Corrupt}) =>
    /\ log = <<>> =>
         /\ storage = atLoad.storage
         /\ \A c \in Clients :
              /\ dom[c].cartCount = 0
              /\ (page[c].name = "cart" /\ allProducts[c] # <<>>)
                   => (dom[c].checkoutDisabled /\ dom[c].removeBtns = {})
    /\ (Len(log) = 1 /\ log[1].op = "add") =>
         /\ storage.kind = "json"
         /\ Len(storage.cart) = 1
         /\ storage.cart[1].id = log[1].id
         /\ storage.cart[1].quantity = 1

\* the slot held unparsable content; one add stored one line
C19_Witness ==
  /\ variant = "local"
  /\ atLoad.storage = Corrupt
  /\ Len(log) = 1 /\ log[1].op = "add"
  /\ storage = stringify(<< [id |-> log[1].id, price |-> 2499, quantity |-> 1] >>)

\* price times quantity of the lines i..Len(cart), added up, in cents
RECURSIVE LineSum(_, _)
LineSum(cart, i) ==
  IF i > Len(cart) THEN 0
  ELSE LineSum(cart, i + 1) + cart[i].quantity * cart[i].price

\* the total a cart page must show for the cart it renders
TotalShown(d, cart) ==
  /\ d.cartTotal = LineSum(cart, 1)
  /\ cart = <<>> => d.cartTotal = 0
  /\ ( /\ Len(cart) = 2
       /\ {<< cart[i].price, cart[i].quantity >> : i \in 1..2}
            = {<< 2499, 1 >>, << 7999, 2 >>} )
     => d.cartTotal = 18497

\* C20: the total of the cart page is the sum of price times quantity over
\* the lines it renders, in cents: 18497 for a line of 2499 with quantity 1
\* and a line of 7999 with quantity 2, and 0 for the empty cart.  The local
\* build renders the stored cart when the page loads and after remove and
\* checkout; the Firestore build renders the in-memory cart.
C20_TotalIsSumOfLines ==
  /\ [](\A c \in Clients :
          (variant = "sync" /\ page[c].name = "cart")
            => TotalShown(dom[c], currentCart[c]))
  /\ [][\A c \in Clients :
          ( /\ page[c].name = "cart"
            /\ \/ \E o \in FetchOutcomes : fetchDoneLocal(c, o)
               \/ \E p \in ClickIds : handleRemoveFromCartLocal(c, p)
               \/ handleCheckoutLocal(c) )
          => TotalShown(dom'[c], loadCart(storage'))]_vars

\* a cart page that shows 184.97 for the lines of products 1 and 2
C20_Witness ==
  \E c \in Clients :
    /\ page[c].name = "cart"
    /\ fetching[c] = 0 /\ allProducts[c] # <<>>
    /\ dom[c].removeBtns = {1, 2}
    /\ dom[c].cartTotal = 18497

\* C21: Firestore build: a client has a cart subscription only once a
\* catalog load of its page has completed.
C21_SubscribeAfterCatalog ==
  \A c \in Clients : subs[c] # <<>> => allProducts[c] # <<>>

\* the batch holds a notification of success
ShowsSuccess(batch) ==
  \E i \in 1..Len(batch) : batch[i].text \in {"added", "removed", "checkout"}

\* C22: Firestore build: a client is shown a success notification (added,
\* removed, checkout successful) only in the step in which its remote
\* request completed successfully, never together with the notification of
\* a dropped or a failed write.
C22_SuccessOnlyAfterWrite ==
  [][\A c \in Clients :
       ( /\ variant = "sync"
         /\ notes'[c] # notes[c]
         /\ ShowsSuccess(notes'[c]) )
       => /\ reqs[c] # <<>> /\ requestDone(c, TRUE)
          /\ \A i \in 1..Len(notes'[c]) :
               notes'[c][i].text \notin {"save_failed", "not_authenticated"}]_vars

\* C23: Firestore build, one client open, its identity ready and its one
\* subscription on the document of that identity: whenever no request is in
\* flight and no snapshot is undelivered, the in-memory cart is the lines of
\* the remote document.
C23_QuiescentCartIsRemote ==
  \A c \in Clients :
    ( /\ variant = "sync" /\ Alone(c)
      /\ isAuthReady[c] /\ userId[c] \in Uids
      /\ Len(subs[c]) = 1
      /\ subs[c][1].uid = userId[c]
      /\ subs[c][1].queue = <<>>
      /\ reqs[c] = <<>> )
    => currentCart[c] = fromDoc(remote[userId[c]])

\* the adds of product p among the clicks so far
AddsOf(p) == Cardinality({i \in 1..Len(log) : log[i].op = "add" /\ log[i].id = p})

====
